---- MODULE Spec2Model ----
(***************************************************************************)
(* The Bind model of clickr-app: the eight Bind variants, their JSON       *)
(* documents (toJSON / fromJSON / deserializeBind), structural equality    *)
(* (equals) and the lowering to low-level instructions (toLL).             *)
(*                                                                         *)
(* A Bind is a record carrying bind_type and the attributes of its class.  *)
(* JavaScript arrays that the conversions hand on BY REFERENCE live in     *)
(* `heap`: TimedMacro.times is stored, serialised and deserialised without *)
(* a copy, so a Bind and a document hold the ADDRESS of a times array.     *)
(* Arrays the conversions rebuild (binds, through Array.map) and the       *)
(* immutable strings and numbers are held by value.                        *)
(***************************************************************************)
EXTENDS Integers, Sequences, FiniteSets, TLC

VARIABLES
    heap,   \* the times arrays: address -> sequence of durations
    reg,    \* the caller's Bind variables: Regs -> Bind or None
    doc,    \* the caller's document variable d (a toJSON result), or None
    out,    \* the outcome of the last call, or NoCall
    pc      \* "build", "fresh" (d is an untouched toJSON result), "mutated"

vars == <<heap, reg, doc, out, pc>>

---------------------------------------------------------------------------
(* Bounds and input sets                                                   *)

MaxDepth == 3
MaxLayer == 1
MaxTimes == 2

Keys == {"A", "B"}
Apps == {"x", "y"}
Layers == 0..MaxLayer
Triggers == {"T1", "T2"}
Regs == {1, 2, 3}

None == [bind_type |-> "none"]
NoDoc == [type |-> "none"]
NoCall == [op |-> "none"]

---------------------------------------------------------------------------
(* Errors and results.  A call either returns a value or throws.           *)

Unimplemented == "Method not implemented."
UnknownVariant == "Unknown Bind type"
TypeError == "TypeError"

Ok(v) == [err |-> "none", val |-> v]
Throw(e) == [err |-> e]
IsOk(r) == r.err = "none"

\* The first failure among the results rs, in evaluation order.
FirstThrow(rs) ==
    LET i == CHOOSE i \in 1..Len(rs) :
                 /\ ~IsOk(rs[i])
                 /\ \A j \in 1..(i - 1) : IsOk(rs[j])
    IN Throw(rs[i].err)

AllOk(rs) == \A i \in 1..Len(rs) : IsOk(rs[i])

\* Array.prototype.flat() on an array of arrays.
RECURSIVE Flat(_)
Flat(ss) == IF ss = <<>> THEN <<>> ELSE Head(ss) \o Flat(Tail(ss))

---------------------------------------------------------------------------
(* enum BindType and the class constructors                                *)

BindType ==
    [PressKey |-> "press_key", ReleaseKey |-> "release_key",
     TapKey |-> "tap_key", SwitchLayer |-> "switch_layer",
     Macro |-> "macro", TimedMacro |-> "timed_macro_bind",
     Repeat |-> "repeat_bind", AppOpen |-> "app_open_bind"]

PressKey(value) == [bind_type |-> BindType.PressKey, value |-> value]
ReleaseKey(value) == [bind_type |-> BindType.ReleaseKey, value |-> value]
TapKey(value) == [bind_type |-> BindType.TapKey, value |-> value]
Macro(binds) == [bind_type |-> BindType.Macro, binds |-> binds]
\* times is the address of the array passed in: this.times = times
TimedMacro(binds, times) ==
    [bind_type |-> BindType.TimedMacro, binds |-> binds, times |-> times]
Repeat(value, time_delay, times_to_execute, cancel_trigger) ==
    [bind_type |-> BindType.Repeat, value |-> value,
     time_delay |-> time_delay, times_to_execute |-> times_to_execute,
     cancel_trigger |-> cancel_trigger]
SwapLayer(layer_num) ==
    [bind_type |-> BindType.SwitchLayer, layer_number |-> layer_num]
AppOpen_Bind(app_name) ==
    [bind_type |-> BindType.AppOpen, app_name |-> app_name]

\* `other instanceof C`: the constructor of C is the only code that sets C's tag.
InstanceOf(other, tag) == other.bind_type = tag

---------------------------------------------------------------------------
(* Trigger: an external collaborator (./Trigger), known by its interface.  *)

Trigger_toJSON(t) == [type |-> "trigger", id |-> t]
deserializeTrigger(obj) == obj.id
Trigger_equals(a, b) == a = b

---------------------------------------------------------------------------
(* LLBind: the four low-level instructions                                 *)

LLPressKey(value) == [type |-> "press_key", value |-> value]
LLReleaseKey(value) == [type |-> "release_key", value |-> value]
LLSwapLayer(value) == [type |-> "switch_layer", value |-> value]
LLWait(value) == [type |-> "wait", value |-> value]

---------------------------------------------------------------------------
(* toJSON: one method per class, dispatched on the receiver's class        *)

RECURSIVE toJSON(_)

PressKey_toJSON(self) == [type |-> BindType.PressKey, value |-> self.value]
ReleaseKey_toJSON(self) == [type |-> BindType.ReleaseKey, value |-> self.value]
TapKey_toJSON(self) == [type |-> BindType.TapKey, value |-> self.value]
Macro_toJSON(self) ==
    [type |-> BindType.Macro,
     binds |-> [i \in 1..Len(self.binds) |-> toJSON(self.binds[i])]]
\* times: this.times -- the document holds the Bind's own array
TimedMacro_toJSON(self) ==
    [type |-> BindType.TimedMacro,
     binds |-> [i \in 1..Len(self.binds) |-> toJSON(self.binds[i])],
     times |-> self.times]
Repeat_toJSON(self) ==
    [type |-> BindType.Repeat,
     value |-> toJSON(self.value),
     time_delay |-> self.time_delay,
     times_to_execute |-> self.times_to_execute,
     cancel_trigger |-> Trigger_toJSON(self.cancel_trigger)]
SwapLayer_toJSON(self) ==
    [type |-> BindType.SwitchLayer, value |-> self.layer_number]
AppOpen_Bind_toJSON(self) ==
    [type |-> BindType.AppOpen, app_name |-> self.app_name]

toJSON(b) ==
    CASE b.bind_type = BindType.PressKey -> PressKey_toJSON(b)
      [] b.bind_type = BindType.ReleaseKey -> ReleaseKey_toJSON(b)
      [] b.bind_type = BindType.TapKey -> TapKey_toJSON(b)
      [] b.bind_type = BindType.Macro -> Macro_toJSON(b)
      [] b.bind_type = BindType.TimedMacro -> TimedMacro_toJSON(b)
      [] b.bind_type = BindType.Repeat -> Repeat_toJSON(b)
      [] b.bind_type = BindType.SwitchLayer -> SwapLayer_toJSON(b)
      [] b.bind_type = BindType.AppOpen -> AppOpen_Bind_toJSON(b)

---------------------------------------------------------------------------
(* fromJSON and deserializeBind.  A result is Ok(bind) or Throw(error).    *)

RECURSIVE deserializeBind(_)

PressKey_fromJSON(obj) == Ok(PressKey(obj.value))
ReleaseKey_fromJSON(obj) == Ok(ReleaseKey(obj.value))
TapKey_fromJSON(obj) == Ok(TapKey(obj.value))

\* obj.binds.map(deserializeBind): the first child that throws ends the map.
MapDeserialize(binds) == [i \in 1..Len(binds) |-> deserializeBind(binds[i])]
Vals(rs) == [i \in 1..Len(rs) |-> rs[i].val]

Macro_fromJSON(obj) ==
    LET rs == MapDeserialize(obj.binds)
    IN IF AllOk(rs) THEN Ok(Macro(Vals(rs))) ELSE FirstThrow(rs)

\* new TimedMacro(obj.binds.map(deserializeBind), obj.times): obj.times itself
TimedMacro_fromJSON(obj) ==
    LET rs == MapDeserialize(obj.binds)
    IN IF AllOk(rs) THEN Ok(TimedMacro(Vals(rs), obj.times)) ELSE FirstThrow(rs)

\* Fault: time_delay and times_to_execute exchanged.
Repeat_fromJSON_exchanged(obj) ==
    LET r == deserializeBind(obj.value)
    IN IF IsOk(r)
       THEN Ok(Repeat(r.val, obj.times_to_execute, obj.time_delay,
                      deserializeTrigger(obj.cancel_trigger)))
       ELSE Throw(r.err)

\* The arguments are evaluated left to right: deserializeBind(obj.value) first.
Repeat_fromJSON(obj) ==
    LET r == deserializeBind(obj.value)
    IN IF IsOk(r)
       THEN Ok(Repeat(r.val, obj.time_delay, obj.times_to_execute,
                      deserializeTrigger(obj.cancel_trigger)))
       ELSE Throw(r.err)

SwapLayer_fromJSON(obj) == Ok(SwapLayer(obj.value))
AppOpen_Bind_fromJSON(obj) == Ok(AppOpen_Bind(obj.app_name))

\* Fault: no default case, an unknown type yields no Bind and no error.
deserializeBind_no_default(obj) ==
    CASE obj.type = BindType.PressKey -> PressKey_fromJSON(obj)
      [] obj.type = BindType.ReleaseKey -> ReleaseKey_fromJSON(obj)
      [] obj.type = BindType.TapKey -> TapKey_fromJSON(obj)
      [] obj.type = BindType.Macro -> Macro_fromJSON(obj)
      [] obj.type = BindType.TimedMacro -> TimedMacro_fromJSON(obj)
      [] obj.type = BindType.Repeat -> Repeat_fromJSON(obj)
      [] obj.type = BindType.SwitchLayer -> SwapLayer_fromJSON(obj)
      [] obj.type = BindType.AppOpen -> AppOpen_Bind_fromJSON(obj)
      [] OTHER -> Ok(None)

deserializeBind(obj) ==
    CASE obj.type = BindType.PressKey -> PressKey_fromJSON(obj)
      [] obj.type = BindType.ReleaseKey -> ReleaseKey_fromJSON(obj)
      [] obj.type = BindType.TapKey -> TapKey_fromJSON(obj)
      [] obj.type = BindType.Macro -> Macro_fromJSON(obj)
      [] obj.type = BindType.TimedMacro -> TimedMacro_fromJSON(obj)
      [] obj.type = BindType.Repeat -> Repeat_fromJSON(obj)
      [] obj.type = BindType.SwitchLayer -> SwapLayer_fromJSON(obj)
      [] obj.type = BindType.AppOpen -> AppOpen_Bind_fromJSON(obj)
      [] OTHER -> Throw(UnknownVariant)

---------------------------------------------------------------------------
(* equals.  The times arrays are read through the heap.                    *)

RECURSIVE equals(_, _)

PressKey_equals(self, other) ==
    InstanceOf(other, BindType.PressKey) /\ self.value = other.value
ReleaseKey_equals(self, other) ==
    InstanceOf(other, BindType.ReleaseKey) /\ self.value = other.value
TapKey_equals(self, other) ==
    InstanceOf(other, BindType.TapKey) /\ self.value = other.value
\* Fault: no length check; other.binds[i] past its end is undefined, and
\* equals(undefined) is false.
Macro_equals_no_length(self, other) ==
    /\ InstanceOf(other, BindType.Macro)
    /\ \A i \in 1..Len(self.binds) :
           i <= Len(other.binds) /\ equals(self.binds[i], other.binds[i])
Macro_equals(self, other) ==
    /\ InstanceOf(other, BindType.Macro)
    /\ Len(self.binds) = Len(other.binds)
    /\ \A i \in 1..Len(self.binds) : equals(self.binds[i], other.binds[i])
\* Fault: the durations are not compared, only their number.
TimedMacro_equals_no_times(self, other) ==
    /\ InstanceOf(other, BindType.TimedMacro)
    /\ Len(self.binds) = Len(other.binds)
    /\ Len(heap[self.times]) = Len(heap[other.times])
    /\ \A i \in 1..Len(self.binds) : equals(self.binds[i], other.binds[i])
TimedMacro_equals(self, other) ==
    /\ InstanceOf(other, BindType.TimedMacro)
    /\ Len(self.binds) = Len(other.binds)
    /\ Len(heap[self.times]) = Len(heap[other.times])
    /\ \A i \in 1..Len(self.binds) : equals(self.binds[i], other.binds[i])
    /\ \A i \in 1..Len(heap[self.times]) :
           heap[self.times][i] = heap[other.times][i]
Repeat_equals(self, other) ==
    /\ InstanceOf(other, BindType.Repeat)
    /\ equals(self.value, other.value)
    /\ self.time_delay = other.time_delay
    /\ self.times_to_execute = other.times_to_execute
    /\ Trigger_equals(self.cancel_trigger, other.cancel_trigger)
SwapLayer_equals(self, other) ==
    /\ InstanceOf(other, BindType.SwitchLayer)
    /\ self.layer_number = other.layer_number
AppOpen_Bind_equals(self, other) ==
    InstanceOf(other, BindType.AppOpen) /\ self.app_name = other.app_name

equals(a, b) ==
    CASE a.bind_type = BindType.PressKey -> PressKey_equals(a, b)
      [] a.bind_type = BindType.ReleaseKey -> ReleaseKey_equals(a, b)
      [] a.bind_type = BindType.TapKey -> TapKey_equals(a, b)
      [] a.bind_type = BindType.Macro -> Macro_equals(a, b)
      [] a.bind_type = BindType.TimedMacro -> TimedMacro_equals(a, b)
      [] a.bind_type = BindType.Repeat -> Repeat_equals(a, b)
      [] a.bind_type = BindType.SwitchLayer -> SwapLayer_equals(a, b)
      [] a.bind_type = BindType.AppOpen -> AppOpen_Bind_equals(a, b)

---------------------------------------------------------------------------
(* toLL.  A result is Ok(sequence of LLBind) or Throw(error).              *)

RECURSIVE toLL(_)

PressKey_toLL(self) == Ok(<<LLPressKey(self.value)>>)
ReleaseKey_toLL(self) == Ok(<<LLReleaseKey(self.value)>>)
\* Fault: release before press.
TapKey_toLL_reversed(self) ==
    Ok(<<LLReleaseKey(self.value), LLPressKey(self.value)>>)
TapKey_toLL(self) == Ok(<<LLPressKey(self.value), LLReleaseKey(self.value)>>)

\* Fault: the children are concatenated from the last to the first.
Macro_toLL_backwards(self) ==
    LET n == Len(self.binds)
        rs == [i \in 1..n |-> toLL(self.binds[n + 1 - i])]
    IN IF AllOk(rs) THEN Ok(Flat(Vals(rs))) ELSE FirstThrow(rs)

\* this.binds.map((b) => b.toLL()).flat(): a child that throws ends the map.
Macro_toLL(self) ==
    LET rs == [i \in 1..Len(self.binds) |-> toLL(self.binds[i])]
    IN IF AllOk(rs) THEN Ok(Flat(Vals(rs))) ELSE FirstThrow(rs)

\* The loop of TimedMacro.toLL from i with the local array `binds`:
\*     for (; i < binds.length; i++) { binds.push(...this.binds[i].toLL()); ... }
\* The condition reads the LOCAL binds (the output), not this.binds.
RECURSIVE TimedMacro_toLL_loop(_, _, _)
TimedMacro_toLL_loop(self, binds, i) ==
    IF i < Len(binds)
    THEN IF i >= Len(self.binds)
         THEN Throw(TypeError)     \* this.binds[i] is undefined
         ELSE LET r == toLL(self.binds[i + 1])
              IN IF ~IsOk(r)
                 THEN Throw(r.err)
                 ELSE TimedMacro_toLL_loop(
                          self,
                          IF i < Len(heap[self.times])
                          THEN (binds \o r.val) \o <<LLWait(heap[self.times][i + 1])>>
                          ELSE binds \o r.val,
                          i + 1)
    ELSE Ok(binds)

\* let binds: LLBind[] = []; for (let i = 0; ...
TimedMacro_toLL(self) == TimedMacro_toLL_loop(self, <<>>, 0)

\* Fault: a Repeat silently lowers to nothing.
Repeat_toLL_empty(self) == Ok(<<>>)
Repeat_toLL(self) == Throw(Unimplemented)
SwapLayer_toLL(self) == Ok(<<LLSwapLayer(self.layer_number)>>)
AppOpen_Bind_toLL(self) == Throw(Unimplemented)

toLL(b) ==
    CASE b.bind_type = BindType.PressKey -> PressKey_toLL(b)
      [] b.bind_type = BindType.ReleaseKey -> ReleaseKey_toLL(b)
      [] b.bind_type = BindType.TapKey -> TapKey_toLL(b)
      [] b.bind_type = BindType.Macro -> Macro_toLL(b)
      [] b.bind_type = BindType.TimedMacro -> TimedMacro_toLL(b)
      [] b.bind_type = BindType.Repeat -> Repeat_toLL(b)
      [] b.bind_type = BindType.SwitchLayer -> SwapLayer_toLL(b)
      [] b.bind_type = BindType.AppOpen -> AppOpen_Bind_toLL(b)

---------------------------------------------------------------------------
(* The shape of Binds and documents                                        *)

IsNone(b) == b.bind_type = "none"
IsComposite(b) == b.bind_type \in {BindType.Macro, BindType.TimedMacro}

\* Nesting depth of a Bind: 0 for a leaf.
RECURSIVE Depth(_)
RECURSIVE MaxOver(_)
MaxOver(ns) == IF ns = <<>> THEN 0
               ELSE LET m == MaxOver(Tail(ns))
                    IN IF Head(ns) > m THEN Head(ns) ELSE m
Depth(b) ==
    IF IsComposite(b)
    THEN 1 + MaxOver([i \in 1..Len(b.binds) |-> Depth(b.binds[i])])
    ELSE IF b.bind_type = BindType.Repeat THEN 1 + Depth(b.value) ELSE 0

DocHasBinds(d) == d.type \in {BindType.Macro, BindType.TimedMacro}

\* The positions of the documents nested in d: <<>> is d itself, i a child.
RECURSIVE Paths(_)
Paths(d) ==
    {<<>>} \cup
    (IF DocHasBinds(d)
     THEN UNION {{<<i>> \o p : p \in Paths(d.binds[i])} : i \in 1..Len(d.binds)}
     ELSE IF d.type = BindType.Repeat
          THEN {<<1>> \o p : p \in Paths(d.value)}
          ELSE {})

RECURSIVE SubAt(_, _)
SubAt(d, p) ==
    IF p = <<>> THEN d
    ELSE IF d.type = BindType.Repeat THEN SubAt(d.value, Tail(p))
         ELSE SubAt(d.binds[Head(p)], Tail(p))

RECURSIVE ReplaceAt(_, _, _)
ReplaceAt(d, p, n) ==
    IF p = <<>> THEN n
    ELSE IF d.type = BindType.Repeat
         THEN [d EXCEPT !.value = ReplaceAt(d.value, Tail(p), n)]
         ELSE [d EXCEPT !.binds[Head(p)] = ReplaceAt(d.binds[Head(p)], Tail(p), n)]

---------------------------------------------------------------------------
(* The caller: it constructs Binds, converts them and edits documents.     *)

tA == TapKey("A")
tB == TapKey("B")

\* The times arrays the caller has allocated.
InitHeap == << <<100>>, <<100>>, <<100, 250>>, <<100, 100>> >>

Init ==
    /\ heap = InitHeap
    /\ reg = [r \in Regs |-> None]
    /\ doc = NoDoc
    /\ out = NoCall
    /\ pc = "build"

Assign(r, b) ==
    /\ pc = "build"
    /\ reg' = [reg EXCEPT ![r] = b]
    /\ out' = NoCall
    /\ UNCHANGED <<heap, doc, pc>>

NewPressKey(r, value) == IsNone(reg[r]) /\ Assign(r, PressKey(value))
NewReleaseKey(r, value) == IsNone(reg[r]) /\ Assign(r, ReleaseKey(value))
NewTapKey(r, value) == IsNone(reg[r]) /\ Assign(r, TapKey(value))
NewSwapLayer(r, layer_num) == IsNone(reg[r]) /\ Assign(r, SwapLayer(layer_num))
NewAppOpen_Bind(r, app_name) == IsNone(reg[r]) /\ Assign(r, AppOpen_Bind(app_name))
NewMacro(r, binds) == Assign(r, Macro(binds))
NewTimedMacro(r, binds, times) == Assign(r, TimedMacro(binds, times))
NewRepeat(r, value, time_delay, times_to_execute, cancel_trigger) ==
    Assign(r, Repeat(value, time_delay, times_to_execute, cancel_trigger))

\* d = reg[r].toJSON()
CallToJSON(r) ==
    /\ pc = "build"
    /\ ~IsNone(reg[r])
    /\ doc' = toJSON(reg[r])
    /\ pc' = "fresh"
    /\ out' = [op |-> "toJSON", arg |-> r]
    /\ UNCHANGED <<heap, reg>>

\* reg[r] = deserializeBind(d): the assignment happens only if nothing is thrown
CallDeserializeBind(r) ==
    /\ pc # "build"
    /\ IsNone(reg[r])
    /\ LET res == deserializeBind(doc)
       IN /\ reg' = [reg EXCEPT ![r] = IF IsOk(res) THEN res.val ELSE None]
          /\ out' = [op |-> "deserializeBind", arg |-> r, res |-> res]
    /\ UNCHANGED <<heap, doc, pc>>

\* reg[r].toLL()
CallToLL(r) ==
    /\ ~IsNone(reg[r])
    /\ out' = [op |-> "toLL", arg |-> r, res |-> toLL(reg[r])]
    /\ UNCHANGED <<heap, reg, doc, pc>>

\* reg[i].equals(reg[j]) for every pair of the caller's Binds
CallEquals ==
    /\ \A r \in Regs : ~IsNone(reg[r])
    /\ out.op # "equals"
    /\ out' = [op |-> "equals",
               res |-> [i \in Regs |-> [j \in Regs |-> equals(reg[i], reg[j])]]]
    /\ UNCHANGED <<heap, reg, doc, pc>>

\* In-place edits of the document d, at the nested document at position p.
\* d.times.push(t)
PushTime(p, t) ==
    /\ pc = "fresh"
    /\ p \in Paths(doc)
    /\ SubAt(doc, p).type = BindType.TimedMacro
    /\ Len(heap[SubAt(doc, p).times]) < MaxTimes
    /\ heap' = [heap EXCEPT ![SubAt(doc, p).times] = Append(@, t)]
    /\ pc' = "mutated"
    /\ out' = NoCall
    /\ UNCHANGED <<reg, doc>>

\* d.times.pop()
PopTime(p) ==
    /\ pc = "fresh"
    /\ p \in Paths(doc)
    /\ SubAt(doc, p).type = BindType.TimedMacro
    /\ heap[SubAt(doc, p).times] # <<>>
    /\ heap' = [heap EXCEPT ![SubAt(doc, p).times] = SubSeq(@, 1, Len(@) - 1)]
    /\ pc' = "mutated"
    /\ out' = NoCall
    /\ UNCHANGED <<reg, doc>>

\* d.binds.push(e)
PushBind(p, e) ==
    /\ pc = "fresh"
    /\ p \in Paths(doc)
    /\ DocHasBinds(SubAt(doc, p))
    /\ doc' = ReplaceAt(doc, p, [SubAt(doc, p) EXCEPT !.binds = Append(@, e)])
    /\ pc' = "mutated"
    /\ out' = NoCall
    /\ UNCHANGED <<heap, reg>>

\* d.binds.pop()
PopBind(p) ==
    /\ pc = "fresh"
    /\ p \in Paths(doc)
    /\ DocHasBinds(SubAt(doc, p))
    /\ SubAt(doc, p).binds # <<>>
    /\ doc' = ReplaceAt(doc, p,
                  [SubAt(doc, p) EXCEPT !.binds = SubSeq(@, 1, Len(@) - 1)])
    /\ pc' = "mutated"
    /\ out' = NoCall
    /\ UNCHANGED <<heap, reg>>

\* d.type = tag
SetType(p, tag) ==
    /\ pc = "fresh"
    /\ p \in Paths(doc)
    /\ doc' = ReplaceAt(doc, p, [SubAt(doc, p) EXCEPT !.type = tag])
    /\ pc' = "mutated"
    /\ out' = NoCall
    /\ UNCHANGED <<heap, reg>>

---------------------------------------------------------------------------
(* Spec: one Bind built to depth MaxDepth, converted both ways, lowered.   *)

UnknownTags == {"not_a_real_type"}
RepeatArgs == {<<50, 3, "T1">>}

\* The arguments the caller passes to new Macro, new TimedMacro and new Repeat:
\* literals for a first Bind, the Bind built so far (c) for a nested one.
MacroArgs(c) ==
    IF IsNone(c) THEN {<<>>, <<tA, tB>>}
    ELSE IF Depth(c) < MaxDepth THEN {<<tA, c>>}
    ELSE {}

TimedMacroArgs(c) ==
    IF IsNone(c) THEN {<<>>, <<tA, tB>>} \X {1, 3}
    ELSE IF Depth(c) < MaxDepth THEN {<<c, tB>>} \X {3}
    ELSE {}

RepeatValues(c) ==
    IF IsNone(c) THEN {tA}
    ELSE IF Depth(c) < MaxDepth THEN {c}
    ELSE {}

BuildLeaf(r) ==
    \/ \E k \in Keys : NewPressKey(r, k)
    \/ \E k \in Keys : NewReleaseKey(r, k)
    \/ \E k \in Keys : NewTapKey(r, k)
    \/ \E n \in Layers : NewSwapLayer(r, n)
    \/ \E a \in Apps : NewAppOpen_Bind(r, a)

Build(r) ==
    \/ BuildLeaf(r)
    \/ \E bs \in MacroArgs(reg[r]) : NewMacro(r, bs)
    \/ \E a \in TimedMacroArgs(reg[r]) : NewTimedMacro(r, a[1], a[2])
    \/ \E v \in RepeatValues(reg[r]), a \in RepeatArgs :
           NewRepeat(r, v, a[1], a[2], a[3])

Edit ==
    \/ \E p \in Paths(doc) : PushTime(p, 250)
    \/ \E p \in Paths(doc) : PopTime(p)
    \/ \E p \in Paths(doc) : PushBind(p, toJSON(tB))
    \/ \E p \in Paths(doc) : PopBind(p)
    \/ \E p \in Paths(doc), tag \in UnknownTags : SetType(p, tag)

Next ==
    \/ Build(1)
    \/ CallToJSON(1)
    \/ CallDeserializeBind(2)
    \/ \E r \in {1, 2} : CallToLL(r)
    \/ Edit

Spec == Init /\ [][Next]_vars

---------------------------------------------------------------------------
(* SpecEq: three Binds built independently of one another and compared.    *)

EqMacroArgs ==
    {<<>>, <<tA>>, <<tA, tB>>, <<tB, tA>>, <<Macro(<<tA>>)>>,
     <<TimedMacro(<<tA>>, 1)>>, <<TimedMacro(<<tA>>, 2)>>,
     <<TimedMacro(<<tA>>, 3)>>}
EqTimedMacroArgs == {<<tA>>, <<tA, tB>>} \X DOMAIN InitHeap
EqRepeatArgs ==
    {<<50, 3, "T1">>, <<0, 3, "T1">>, <<50, 0, "T1">>, <<50, 3, "T2">>}

BuildEq(r) ==
    /\ IsNone(reg[r])
    /\ \/ BuildLeaf(r)
       \/ \E bs \in EqMacroArgs : NewMacro(r, bs)
       \/ \E a \in EqTimedMacroArgs : NewTimedMacro(r, a[1], a[2])
       \/ \E v \in {tA, Macro(<<tA>>)}, a \in EqRepeatArgs :
              NewRepeat(r, v, a[1], a[2], a[3])

NextEq ==
    \/ \E r \in Regs : BuildEq(r)
    \/ CallEquals

SpecEq == Init /\ [][NextEq]_vars

---------------------------------------------------------------------------
(* Vocabulary of the properties                                            *)

\* The Bind b read through heap h: every times address replaced by the array's
\* contents, so that two Binds are the same value iff all attributes agree.
RECURSIVE Deref(_, _)
Deref(b, h) ==
    IF b.bind_type = BindType.Macro
    THEN [b EXCEPT !.binds = [i \in 1..Len(b.binds) |-> Deref(b.binds[i], h)]]
    ELSE IF b.bind_type = BindType.TimedMacro
    THEN [b EXCEPT !.binds = [i \in 1..Len(b.binds) |-> Deref(b.binds[i], h)],
                   !.times = h[b.times]]
    ELSE IF b.bind_type = BindType.Repeat
    THEN [b EXCEPT !.value = Deref(b.value, h)]
    ELSE b

Called(op) == out.op = op
Self == reg[out.arg]

\* The instructions the specification gives for a lowerable leaf.
LeafLL(b) ==
    CASE b.bind_type = "press_key" -> <<[type |-> "press_key", value |-> b.value]>>
      [] b.bind_type = "release_key" -> <<[type |-> "release_key", value |-> b.value]>>
      [] b.bind_type = "tap_key" ->
             <<[type |-> "press_key", value |-> b.value],
               [type |-> "release_key", value |-> b.value]>>
      [] b.bind_type = "switch_layer" ->
             <<[type |-> "switch_layer", value |-> b.layer_number]>>

LowerableLeafTypes == {"press_key", "release_key", "tap_key", "switch_layer"}
UnlowerableTypes == {"repeat_bind", "app_open_bind"}

---------------------------------------------------------------------------
\* C8: lowering a leaf gives exactly [press(k)] for PressKey(k), [release(k)]
\* for ReleaseKey(k), [press(k), release(k)] in that order for TapKey(k) and
\* [switch_layer(n)] for SwapLayer(n).
C8_LeafLowering ==
    (Called("toLL") /\ Self.bind_type \in LowerableLeafTypes) =>
        out.res = [err |-> "none", val |-> LeafLL(Self)]

C8_Witness ==
    /\ Called("toLL")
    /\ Self = [bind_type |-> "tap_key", value |-> "A"]
    /\ out.res.val = <<[type |-> "press_key", value |-> "A"],
                       [type |-> "release_key", value |-> "A"]>>

\* C4: toLL applied directly to a Repeat or to an AppOpen_Bind always throws
\* the Unimplemented error and returns no instruction sequence.
C4_UnlowerableThrows ==
    (Called("toLL") /\ Self.bind_type \in UnlowerableTypes) =>
        out.res = [err |-> "Method not implemented."]

C4_Witness ==
    /\ Called("toLL")
    /\ Self.bind_type = "repeat_bind"
    /\ Self.value.bind_type = "macro"
    /\ out.res.err = "Method not implemented."

---------------------------------------------------------------------------
\* The children of Self, lowered one by one.
ChildLL(i) == toLL(Self.binds[i])
ChildrenLowerable == \A i \in 1..Len(Self.binds) : IsOk(ChildLL(i))

\* toLL(b1) ++ ... ++ toLL(bn), from the left.
RECURSIVE ConcatChildren(_)
ConcatChildren(n) ==
    IF n = 0 THEN <<>> ELSE ConcatChildren(n - 1) \o ChildLL(n).val

\* A Macro whose descendants are Macros and lowerable leaves only, and its
\* leaves from left to right.
RECURSIVE IsMacroTree(_)
IsMacroTree(b) ==
    \/ b.bind_type \in LowerableLeafTypes
    \/ /\ b.bind_type = "macro"
       /\ \A i \in 1..Len(b.binds) : IsMacroTree(b.binds[i])

RECURSIVE LeavesOf(_)
LeavesOf(b) ==
    IF b.bind_type = "macro"
    THEN Flat([i \in 1..Len(b.binds) |-> LeavesOf(b.binds[i])])
    ELSE <<b>>

LeavesLL(b) ==
    LET ls == LeavesOf(b)
    IN Flat([i \in 1..Len(ls) |-> LeafLL(ls[i])])

\* C3: for a Macro whose children are all lowerable, toLL is the in-order
\* concatenation of the children's toLL with nothing in between; an empty Macro
\* lowers to the empty sequence; Macros nested in Macros lower to the
\* instructions of their leaves from left to right.
C3_MacroConcat ==
    (Called("toLL") /\ Self.bind_type = "macro" /\ ChildrenLowerable) =>
        /\ IsOk(out.res)
        /\ out.res.val = ConcatChildren(Len(Self.binds))
        /\ (Self.binds = <<>> => out.res.val = <<>>)
        /\ (IsMacroTree(Self) => out.res.val = LeavesLL(Self))

C3_Witness ==
    /\ Called("toLL")
    /\ Self = Macro(<<tA, Macro(<<tA, SwapLayer(1)>>)>>)
    /\ out.res.val = <<LLPressKey("A"), LLReleaseKey("A"), LLPressKey("A"),
                       LLReleaseKey("A"), LLSwapLayer(1)>>

\* The interleaving the specification gives for a TimedMacro: child i's
\* instructions, then wait(times[i]) exactly when times has an index i.
RECURSIVE Interleave(_)
Interleave(n) ==
    IF n = 0 THEN <<>>
    ELSE (Interleave(n - 1) \o ChildLL(n).val) \o
         (IF n <= Len(heap[Self.times])
          THEN <<[type |-> "wait", value |-> heap[Self.times][n]]>>
          ELSE <<>>)

\* C1: for a TimedMacro whose children are all lowerable, toLL returns, child by
\* child in order, the child's instructions followed by one wait(times[i])
\* exactly when i < len(times), and nothing else.
C1_TimedMacroInterleave ==
    (Called("toLL") /\ Self.bind_type = "timed_macro_bind" /\ ChildrenLowerable) =>
        /\ IsOk(out.res)
        /\ out.res.val = Interleave(Len(Self.binds))

\* A Bind tree with a Repeat or an AppOpen_Bind in it: the Bind itself, or a
\* child at any depth of a Macro or of a TimedMacro.
RECURSIVE HasUnlowerable(_)
HasUnlowerable(b) ==
    \/ b.bind_type \in UnlowerableTypes
    \/ /\ b.bind_type \in {"macro", "timed_macro_bind"}
       /\ \E i \in 1..Len(b.binds) : HasUnlowerable(b.binds[i])

\* C9: toLL of a tree that contains a Repeat or an AppOpen_Bind anywhere throws
\* the Unimplemented error; it never returns a sequence that omits that child.
C9_UnlowerableAnywhereThrows ==
    (Called("toLL") /\ HasUnlowerable(Self)) =>
        out.res.err = "Method not implemented."

---------------------------------------------------------------------------
KnownTypes ==
    {"press_key", "release_key", "tap_key", "macro", "timed_macro_bind",
     "repeat_bind", "switch_layer", "app_open_bind"}

\* A document of an unknown type, or a known composite document with such a
\* document anywhere among its nested binds or value children.
RECURSIVE HasUnknownType(_)
HasUnknownType(d) ==
    \/ d.type \notin KnownTypes
    \/ /\ d.type \in {"macro", "timed_macro_bind"}
       /\ \E i \in 1..Len(d.binds) : HasUnknownType(d.binds[i])
    \/ /\ d.type = "repeat_bind"
       /\ HasUnknownType(d.value)

\* C5: deserializeBind throws the UnknownVariant error, and returns no Bind, for
\* a document whose type is none of the eight tags and for a macro,
\* timed_macro_bind or repeat_bind document that contains one at any depth.
C5_UnknownTypeRejected ==
    (Called("deserializeBind") /\ HasUnknownType(doc)) =>
        /\ out.res = [err |-> "Unknown Bind type"]
        /\ IsNone(Self)

C5_Witness ==
    /\ Called("deserializeBind")
    /\ doc.type = "repeat_bind"
    /\ doc.value.type = "timed_macro_bind"
    /\ Len(doc.value.binds) = 2
    /\ doc.value.binds[1].type = "macro"
    /\ Len(doc.value.binds[1].binds) = 2
    /\ doc.value.binds[1].binds[2].type = "not_a_real_type"
    /\ out.res.err = "Unknown Bind type"

\* C2: deserializeBind(b.toJSON()) returns a Bind of b's variant that b equals,
\* for every variant and for Macro, TimedMacro and Repeat nested in one another.
C2_RoundTrip ==
    (Called("deserializeBind") /\ pc = "fresh") =>
        /\ IsOk(out.res)
        /\ Self = out.res.val
        /\ Self.bind_type = reg[1].bind_type
        /\ equals(reg[1], Self)

C2_Witness ==
    /\ Called("deserializeBind")
    /\ pc = "fresh"
    /\ reg[1].bind_type = "repeat_bind"
    /\ reg[1].value.bind_type = "timed_macro_bind"
    /\ Len(reg[1].value.binds) = 2
    /\ reg[1].value.binds[1].bind_type = "macro"
    /\ Len(reg[1].value.binds[1].binds) = 2
    /\ reg[1].value.binds[1].binds[2].bind_type = "switch_layer"
    /\ equals(reg[1], reg[2])

\* A step that is not a constructor call: a conversion (toJSON,
\* deserializeBind, toLL) or an in-place change to the document.
ConvertsOrEdits == pc' # "build" \/ out'.op # "none"

\* C10: a Bind shares no mutable state with the documents it is converted from
\* or to: no conversion and no in-place change to a document (its binds or its
\* times arrays) changes any attribute of an existing Bind or of a descendant.
C10_NoSharedState ==
    [][ConvertsOrEdits =>
           \A r \in Regs :
               ~IsNone(reg[r]) => Deref(reg'[r], heap') = Deref(reg[r], heap)]_vars

\* C6: equals is an equivalence relation over mixed-variant Binds (reflexive,
\* symmetric, transitive), and false between Binds of different variants.
C6_Equivalence ==
    Called("equals") =>
        \A i \in Regs, j \in Regs :
            /\ out.res[i][i]
            /\ out.res[i][j] = out.res[j][i]
            /\ \A k \in Regs : (out.res[i][j] /\ out.res[j][k]) => out.res[i][k]
            /\ (reg[i].bind_type # reg[j].bind_type) => ~out.res[i][j]

C6_Witness ==
    /\ Called("equals")
    /\ reg[1].bind_type = "timed_macro_bind"
    /\ out.res[1][2]
    /\ out.res[2][3]
    /\ out.res[1][3]
    /\ reg[1].times # reg[2].times

\* C7: a.equals(b) exactly when a and b are the same variant and every
\* attribute is equal: leaf values identical, binds of the same length and
\* pairwise equal in order, times of the same length and values, and all four
\* attributes of a Repeat.
C7_StructuralEquality ==
    Called("equals") =>
        \A i \in Regs, j \in Regs :
            out.res[i][j] <=>
                /\ reg[i].bind_type = reg[j].bind_type
                /\ Deref(reg[i], heap) = Deref(reg[j], heap)

C7_Witness ==
    /\ Called("equals")
    /\ reg[1] = Macro(<<tA, tB>>)
    /\ reg[2] = Macro(<<tB, tA>>)
    /\ ~out.res[1][2]
    /\ reg[3].bind_type = "timed_macro_bind"
    /\ out.res[3][3]

====
